---- MODULE Spec2Model ----
(***************************************************************************)
(* Model of remove_deprecated_methods.py: the scanner/resolver            *)
(* (find_deprecated_methods), the executor (remove_deprecated_blocks),    *)
(* the normalizer (clean_empty_lines) and the driver (main).              *)
(*                                                                         *)
(* A text is a sequence of one-character strings; a document is what      *)
(* content.split('\n') makes of it.  Line numbers are 0-based, as in the  *)
(* code.                                                                   *)
(***************************************************************************)
EXTENDS Integers, Sequences, FiniteSets, TLC

\* ---------------------------------------------------------------- bounds
MaxLines == 4
MaxRuns == 2
MaxFnLines == 4
MaxBlocks == 2
MaxText == 7

\* ------------------------------------------------------------- constants
NL == "\n"

MARKER == <<"@", "a", "v", "a", "i", "l", "a", "b", "l", "e", "(", "*", ",", " ", "d", "e", "p", "r", "e", "c", "a", "t", "e", "d">>

FUNC_SP == <<"f", "u", "n", "c", " ">>

FUNC == <<"f", "u", "n", "c">>

Unknown == <<"U", "n", "k", "n", "o", "w", "n">>

\* \s and \w of the regular expression, over the characters the lines use
Whitespace == {" ", "\t"}

WordChars == {"a", "b", "c", "d", "e", "f", "g", "h", "i", "j", "k", "l", "m",
              "n", "o", "p", "q", "r", "s", "t", "u", "v", "w", "x", "y", "z",
              "_", "0", "1", "2", "3", "4", "5", "6", "7", "8", "9"}

\* ------------------------------------------------------- the input lines
LnEmpty == <<>>

LnMarker == <<"@", "a", "v", "a", "i", "l", "a", "b", "l", "e", "(", "*", ",", " ", "d", "e", "p", "r", "e", "c", "a", "t", "e", "d", ")">>

LnOpen == <<"f", "u", "n", "c", " ", "a", "(", ")", " ", "{">>

LnClose == <<"}">>

LnNoBody == <<"f", "u", "n", "c", " ", "b", "(", ")">>

LnComment == <<"/", "/", " ", "@", "a", "v", "a", "i", "l", "a", "b", "l", "e", "(", "*", ",", " ", "d", "e", "p", "r", "e", "c", "a", "t", "e", "d", ")">>

LnCloseOpen == <<"}", " ", "{">>

LnOneLine == <<"f", "u", "n", "c", " ", "c", "(", ")", " ", "{", "}">>

LineSet == {LnEmpty, LnMarker, LnOpen, LnClose, LnNoBody, LnComment, LnCloseOpen, LnOneLine}

\* ------------------------------------------------------ string functions
\* '\n'.join(lines)
RECURSIVE JoinFrom(_, _)
JoinFrom(lines, n) ==
    IF n > Len(lines) THEN <<>>
    ELSE IF n = Len(lines) THEN lines[n]
    ELSE lines[n] \o <<NL>> \o JoinFrom(lines, n + 1)

Join(lines) == JoinFrom(lines, 1)

\* the position of the first newline of s from p on; Len(s) + 1 if none
NextNewline(s, p) ==
    LET hits == {q \in p..Len(s) : s[q] = NL}
    IN IF hits = {} THEN Len(s) + 1 ELSE CHOOSE q \in hits : \A h \in hits : q <= h

\* content.split('\n'): the pieces between the newlines, always at least one
RECURSIVE SplitFrom(_, _)
SplitFrom(s, p) ==
    LET e == NextNewline(s, p)
    IN IF e > Len(s) THEN <<SubSeq(s, p, Len(s))>>
       ELSE <<SubSeq(s, p, e - 1)>> \o SplitFrom(s, e + 1)

Split(s) == SplitFrom(s, 1)

\* sub in s
Contains(s, sub) ==
    \E p \in 1..(Len(s) - Len(sub) + 1) : SubSeq(s, p, p + Len(sub) - 1) = sub

\* s.strip()
RECURSIVE LStrip(_)
LStrip(s) == IF s # <<>> /\ Head(s) \in Whitespace THEN LStrip(Tail(s)) ELSE s

RECURSIVE RStrip(_)
RStrip(s) ==
    IF s # <<>> /\ s[Len(s)] \in Whitespace THEN RStrip(SubSeq(s, 1, Len(s) - 1)) ELSE s

Strip(s) == RStrip(LStrip(s))

StartsWith(s, pre) == Len(s) >= Len(pre) /\ SubSeq(s, 1, Len(pre)) = pre

\* lines[i], with the code's 0-based index
Line(lines, i) == lines[i + 1]

\* ------------------------------------------------ find_deprecated_methods
IsMarker(line) == Contains(line, MARKER)

IsSkippable(line) == Strip(line) = <<>> \/ StartsWith(Strip(line), <<"/", "/">>)

\* the search started on the marker's own line (j = i)
DeclStartAtMarker(i) == i

\* j = i + 1
DeclStart(i) == i + 1

\* while j < len(lines) and (blank or comment): j += 1
RECURSIVE FindDecl(_, _)
FindDecl(lines, j) ==
    IF j < Len(lines) /\ IsSkippable(Line(lines, j)) THEN FindDecl(lines, j + 1) ELSE j

\* the maximal run of \w characters of s that starts at p
RECURSIVE WordRun(_, _)
WordRun(s, p) ==
    IF p <= Len(s) /\ s[p] \in WordChars THEN <<s[p]>> \o WordRun(s, p + 1) ELSE <<>>

RECURSIVE SkipSpace(_, _)
SkipSpace(s, p) == IF p <= Len(s) /\ s[p] \in Whitespace THEN SkipSpace(s, p + 1) ELSE p

\* re.search(r'func\s+(\w+)', s): the leftmost match's group 1, <<>> if none
RECURSIVE SearchFunc(_, _)
SearchFunc(s, p) ==
    IF p + Len(FUNC) - 1 > Len(s) THEN <<>>
    ELSE LET q == p + Len(FUNC)
             w == SkipSpace(s, q)
         IN IF SubSeq(s, p, q - 1) = FUNC /\ w > q /\ WordRun(s, w) # <<>>
            THEN WordRun(s, w)
            ELSE SearchFunc(s, p + 1)

MethodName(signature) ==
    IF Contains(signature, FUNC_SP) /\ SearchFunc(signature, 1) # <<>>
    THEN SearchFunc(signature, 1)
    ELSE Unknown

\* for char in line_text: the brace count after the line, and whether the
\* inner break (closing brace that brings an opened count back to 0) happened
RECURSIVE ScanChars(_, _, _, _)
ScanChars(line, c, brace_count, found_opening) ==
    IF c > Len(line)
    THEN [count |-> brace_count, found |-> found_opening, hit |-> FALSE]
    ELSE IF line[c] = "{" THEN ScanChars(line, c + 1, brace_count + 1, TRUE)
    ELSE IF line[c] = "}"
         THEN IF found_opening /\ brace_count - 1 = 0
              THEN [count |-> 0, found |-> TRUE, hit |-> TRUE]
              ELSE ScanChars(line, c + 1, brace_count - 1, found_opening)
    ELSE ScanChars(line, c + 1, brace_count, found_opening)

\* for k in range(j, len(lines)): end_line starts at j and is assigned only
\* by the inner break; the outer break leaves it alone
RECURSIVE FindEnd(_, _, _, _, _)
FindEnd(lines, j, k, brace_count, found_opening) ==
    IF k >= Len(lines) THEN j
    ELSE LET r == ScanChars(Line(lines, k), 1, brace_count, found_opening)
         IN IF r.hit THEN k
            ELSE IF r.found /\ r.count = 0 THEN j
            ELSE FindEnd(lines, j, k + 1, r.count, r.found)

EndLine(lines, j) == FindEnd(lines, j, j, 0, FALSE)

\* the dictionary appended to deprecated_blocks
Block(start_line, end_line, method_name) ==
    [start |-> start_line, end |-> end_line, name |-> method_name,
     lines |-> end_line - start_line + 1]

\* the scan resumed on the line after the marker (i += 1)
ResumeAtNextLine(i, end_line) == i + 1

\* i = end_line + 1
ResumeAt(i, end_line) == end_line + 1

\* while i < len(lines)
RECURSIVE ScanLines(_, _, _)
ScanLines(lines, i, deprecated_blocks) ==
    IF i >= Len(lines) THEN deprecated_blocks
    ELSE IF IsMarker(Line(lines, i))
         THEN LET j == FindDecl(lines, DeclStart(i))
              IN IF j >= Len(lines)
                 THEN ScanLines(lines, i + 1, deprecated_blocks)
                 ELSE LET end_line == EndLine(lines, j)
                          name == MethodName(Strip(Line(lines, j)))
                      IN ScanLines(lines, ResumeAt(i, end_line),
                                   Append(deprecated_blocks, Block(i, end_line, name)))
    ELSE ScanLines(lines, i + 1, deprecated_blocks)

find_deprecated_methods(content) == ScanLines(Split(content), 0, <<>>)

\* ----------------------------------------------- remove_deprecated_blocks
\* sorted(deprecated_blocks, key=lambda x: x['start'], reverse=True): the
\* sort is stable, blocks with equal starts keep their order
RECURSIVE InsertDesc(_, _)
InsertDesc(sorted, b) ==
    IF sorted = <<>> THEN <<b>>
    ELSE IF Head(sorted).start < b.start THEN <<b>> \o sorted
    ELSE <<Head(sorted)>> \o InsertDesc(Tail(sorted), b)

RECURSIVE SortedFrom(_, _, _)
SortedFrom(deprecated_blocks, n, sorted) ==
    IF n > Len(deprecated_blocks) THEN sorted
    ELSE SortedFrom(deprecated_blocks, n + 1, InsertDesc(sorted, deprecated_blocks[n]))

\* the blocks taken in the order given, without the sort
SortBlocksUnsorted(deprecated_blocks) == deprecated_blocks

SortBlocks(deprecated_blocks) == SortedFrom(deprecated_blocks, 1, <<>>)

Min(a, b) == IF a < b THEN a ELSE b

\* del lines[start:end]: the end line is kept
DelRangeExclusiveEnd(lines, start, end) ==
    LET lo == Min(start, Len(lines))
        hi == Min(end, Len(lines))
    IN IF hi <= lo THEN lines
       ELSE SubSeq(lines, 1, lo) \o SubSeq(lines, hi + 1, Len(lines))

\* del lines[start + 1:end + 1]: the marker line is kept
DelRangeAfterStart(lines, start, end) ==
    LET lo == Min(start + 1, Len(lines))
        hi == Min(end + 1, Len(lines))
    IN IF hi <= lo THEN lines
       ELSE SubSeq(lines, 1, lo) \o SubSeq(lines, hi + 1, Len(lines))

\* del lines[start:end + 1]: a slice is clamped to the list
DelRange(lines, start, end) ==
    LET lo == Min(start, Len(lines))
        hi == Min(end + 1, Len(lines))
    IN IF hi <= lo THEN lines
       ELSE SubSeq(lines, 1, lo) \o SubSeq(lines, hi + 1, Len(lines))

\* for block in deprecated_blocks_sorted
RECURSIVE RemoveFrom(_, _, _, _)
RemoveFrom(lines, sorted, n, total_removed) ==
    IF n > Len(sorted) THEN [lines |-> lines, total |-> total_removed]
    ELSE RemoveFrom(DelRange(lines, sorted[n].start, sorted[n].end), sorted, n + 1,
                    total_removed + (sorted[n].end - sorted[n].start + 1))

\* the returned text, the list it is joined from, and the total the
\* function prints
remove_deprecated_blocks(content, deprecated_blocks) ==
    LET r == RemoveFrom(Split(content), SortBlocks(deprecated_blocks), 1, 0)
    IN [content |-> Join(r.lines), lines |-> r.lines, total |-> r.total]

\* ------------------------------------------------------ clean_empty_lines
\* the end (exclusive) of the run of newlines that starts at p
RECURSIVE NewlineRunEnd(_, _)
NewlineRunEnd(s, p) == IF p <= Len(s) /\ s[p] = NL THEN NewlineRunEnd(s, p + 1) ELSE p

\* re.sub(r'\n{3,}', '\n\n', content): leftmost, greedy, non-overlapping;
\* p is the start of a maximal run of newlines or of other characters
RECURSIVE SubNewlines(_, _)
SubNewlines(s, p) ==
    IF p > Len(s) THEN <<>>
    ELSE IF s[p] = NL
         THEN LET e == NewlineRunEnd(s, p)
              IN IF e - p >= 3 THEN <<NL, NL>> \o SubNewlines(s, e)
                 ELSE SubSeq(s, p, e - 1) \o SubNewlines(s, e)
    ELSE LET e == NextNewline(s, p)
         IN SubSeq(s, p, e - 1) \o SubNewlines(s, e)

clean_empty_lines(content) == SubNewlines(content, 1)

\* ------------------------------------------------------------------ main
VARIABLES
    exists,               \* file_path.exists()
    file,                 \* the text of the target file on disk
    pc,                   \* the statement of main that runs next
    run,                  \* which invocation of the script this is
    original_content,
    original_lines,
    deprecated_blocks,
    cleaned_content,
    total_lines_removed,  \* the total remove_deprecated_blocks accumulates
    lines,                \* the list remove_deprecated_blocks has edited
    stdout,               \* the counts printed by "Found N deprecated methods"
    writes,               \* calls of write_file in this run
    err                   \* why the run exited with status 1

vars == <<exists, file, pc, run, original_content, original_lines,
          deprecated_blocks, cleaned_content, total_lines_removed, lines, stdout,
          writes, err>>

Documents(lineSet, maxLines) == UNION {[1..n -> lineSet] : n \in 1..maxLines}

Texts == {Join(d) : d \in Documents(LineSet, MaxLines)}

Locals ==
    /\ original_content = <<>>
    /\ original_lines = 0
    /\ deprecated_blocks = <<>>
    /\ cleaned_content = <<>>
    /\ total_lines_removed = 0
    /\ lines = <<>>
    /\ writes = 0
    /\ err = "none"

Init ==
    /\ run = 1
    /\ pc = "start"
    /\ exists \in BOOLEAN
    /\ file \in (IF exists THEN Texts ELSE {<<>>})
    /\ stdout = <<>>
    /\ Locals

\* if not file_path.exists(): sys.exit(1)
FileMissing ==
    /\ pc = "start"
    /\ ~exists
    /\ pc' = "exit1"
    /\ err' = "not_found"
    /\ UNCHANGED <<lines, stdout, exists, file, run, original_content, original_lines,
                   deprecated_blocks, cleaned_content, total_lines_removed, writes>>

FilePresent ==
    /\ pc = "start"
    /\ exists
    /\ pc' = "read"
    /\ UNCHANGED <<lines, stdout, exists, file, run, original_content, original_lines,
                   deprecated_blocks, cleaned_content, total_lines_removed, writes, err>>

\* original_content = read_file(file_path)
ReadFile ==
    /\ pc = "read"
    /\ original_content' = file
    /\ original_lines' = Len(Split(file))
    /\ pc' = "find"
    /\ UNCHANGED <<lines, stdout, exists, file, run, deprecated_blocks, cleaned_content,
                   total_lines_removed, writes, err>>

\* read_file's except branches: open or read raised, sys.exit(1)
ReadFail ==
    /\ pc = "read"
    /\ pc' = "exit1"
    /\ err' = "read"
    /\ UNCHANGED <<lines, stdout, exists, file, run, original_content, original_lines,
                   deprecated_blocks, cleaned_content, total_lines_removed, writes>>

\* main without the early return
AfterFindAlwaysRemove(blocks) == "remove"

\* if not deprecated_blocks: return
AfterFind(blocks) == IF blocks = <<>> THEN "done" ELSE "remove"

FindDeprecated ==
    /\ pc = "find"
    /\ deprecated_blocks' = find_deprecated_methods(original_content)
    /\ stdout' = Append(stdout, Len(deprecated_blocks'))
    /\ pc' = AfterFind(deprecated_blocks')
    /\ UNCHANGED <<lines, exists, file, run, original_content, original_lines,
                   cleaned_content, total_lines_removed, writes, err>>

RemoveBlocks ==
    /\ pc = "remove"
    /\ LET r == remove_deprecated_blocks(original_content, deprecated_blocks)
       IN /\ cleaned_content' = r.content
          /\ lines' = r.lines
          /\ total_lines_removed' = r.total
    /\ pc' = "clean"
    /\ UNCHANGED <<stdout, exists, file, run, original_content, original_lines,
                   deprecated_blocks, writes, err>>

CleanEmptyLines ==
    /\ pc = "clean"
    /\ cleaned_content' = clean_empty_lines(cleaned_content)
    /\ pc' = "write"
    /\ UNCHANGED <<lines, stdout, exists, file, run, original_content, original_lines,
                   deprecated_blocks, total_lines_removed, writes, err>>

\* write_file(file_path, cleaned_content)
WriteFile ==
    /\ pc = "write"
    /\ file' = cleaned_content
    /\ writes' = writes + 1
    /\ pc' = "done"
    /\ UNCHANGED <<lines, stdout, exists, run, original_content, original_lines,
                   deprecated_blocks, cleaned_content, total_lines_removed, err>>

\* write_file's except branch: open raised (the file is untouched) or the
\* write raised after open had truncated the file; sys.exit(1)
WriteFail ==
    /\ pc = "write"
    /\ file' \in {file, <<>>}
    /\ writes' = writes + 1
    /\ pc' = "exit1"
    /\ err' = "write"
    /\ UNCHANGED <<lines, stdout, exists, run, original_content, original_lines,
                   deprecated_blocks, cleaned_content, total_lines_removed>>

\* the script is started again on the file the previous run left
NextRun ==
    /\ pc = "done"
    /\ run < MaxRuns
    /\ run' = run + 1
    /\ pc' = "start"
    /\ original_content' = <<>>
    /\ original_lines' = 0
    /\ deprecated_blocks' = <<>>
    /\ cleaned_content' = <<>>
    /\ total_lines_removed' = 0
    /\ lines' = <<>>
    /\ writes' = 0
    /\ err' = "none"
    /\ UNCHANGED <<exists, file, stdout>>

Next ==
    \/ FileMissing
    \/ FilePresent
    \/ ReadFile
    \/ ReadFail
    \/ FindDeprecated
    \/ RemoveBlocks
    \/ CleanEmptyLines
    \/ WriteFile
    \/ WriteFail
    \/ NextRun

Spec == Init /\ [][Next]_vars

\* ------------------------------------- the functions on their own inputs
\* remove_deprecated_blocks called with any list of in-range blocks
FnLineSet == {LnEmpty, LnClose, LnNoBody}

FnTexts == {Join(d) : d \in Documents(FnLineSet, MaxFnLines)}

Ranges(n) == UNION {{Block(s, e, Unknown) : e \in s..(n - 1)} : s \in 0..(n - 1)}

BlockLists(n) == UNION {[1..m -> Ranges(n)] : m \in 0..MaxBlocks}

InitRemove ==
    /\ run = 1
    /\ pc = "call"
    /\ exists = FALSE
    /\ file = <<>>
    /\ stdout = <<>>
    /\ original_content \in FnTexts
    /\ original_lines = Len(Split(original_content))
    /\ deprecated_blocks \in BlockLists(original_lines)
    /\ cleaned_content = <<>>
    /\ total_lines_removed = 0
    /\ lines = <<>>
    /\ writes = 0
    /\ err = "none"

CallRemove ==
    /\ pc = "call"
    /\ LET r == remove_deprecated_blocks(original_content, deprecated_blocks)
       IN /\ cleaned_content' = r.content
          /\ lines' = r.lines
          /\ total_lines_removed' = r.total
    /\ pc' = "returned"
    /\ UNCHANGED <<exists, file, run, original_content, original_lines,
                   deprecated_blocks, stdout, writes, err>>

SpecRemove == InitRemove /\ [][CallRemove]_vars

\* clean_empty_lines called with any text
CleanTexts == UNION {[1..n -> {"a", NL}] : n \in 0..MaxText}

InitClean ==
    /\ run = 1
    /\ pc = "call"
    /\ exists = FALSE
    /\ file = <<>>
    /\ stdout = <<>>
    /\ original_content \in CleanTexts
    /\ original_lines = Len(Split(original_content))
    /\ deprecated_blocks = <<>>
    /\ cleaned_content = <<>>
    /\ total_lines_removed = 0
    /\ lines = <<>>
    /\ writes = 0
    /\ err = "none"

CallClean ==
    /\ pc = "call"
    /\ cleaned_content' = clean_empty_lines(original_content)
    /\ pc' = "returned"
    /\ UNCHANGED <<exists, file, run, original_content, original_lines,
                   deprecated_blocks, total_lines_removed, lines, stdout, writes, err>>

SpecClean == InitClean /\ [][CallClean]_vars

\* ============================================================= properties
\* find_deprecated_methods has returned in this run of main
FindHasRun == Len(stdout) = run

BlockSet == {deprecated_blocks[n] : n \in DOMAIN deprecated_blocks}

\* line i lies in the range of a block that starts before it
InsideEarlierBlock(i) == \E b \in BlockSet : b.start < i /\ i <= b.end

Covered(i) == \E b \in BlockSet : b.start <= i /\ i <= b.end

\* the declaration line of the marker on line i (Len if there is none)
DeclOf(doc, i) == FindDecl(doc, i + 1)

\* no '{' on line j or on any later line
NoOpeningFrom(doc, j) == \A k \in j..(Len(doc) - 1) : ~Contains(Line(doc, k), <<"{">>)

\* the scan reaches the marker on line i, its declaration exists and no
\* delimiter is ever opened
UnresolvedAt(doc, i) ==
    /\ IsMarker(Line(doc, i))
    /\ ~InsideEarlierBlock(i)
    /\ DeclOf(doc, i) < Len(doc)
    /\ NoOpeningFrom(doc, DeclOf(doc, i))

\* C1: a marker whose declaration never opens a '{' gives no block (the
\* resolver fails instead of ending the block on the declaration line), and
\* the run leaves the file as it was.
C1_UnresolvedBodyFails ==
    FindHasRun =>
        LET doc == Split(original_content)
        IN \A i \in 0..(Len(doc) - 1) :
               UnresolvedAt(doc, i) =>
                   /\ ~\E b \in BlockSet : b.start = i
                   /\ file = original_content

\* two entries of the block list have intersecting inclusive ranges
HasOverlap(blocks) ==
    \E n, m \in DOMAIN blocks :
        n # m /\ blocks[n].start <= blocks[m].end /\ blocks[m].start <= blocks[n].end

\* C2: called with two intersecting blocks, remove_deprecated_blocks removes
\* no line: the returned document is the input document.
C2_OverlapRemovesNothing ==
    (pc = "returned" /\ HasOverlap(deprecated_blocks)) => cleaned_content = original_content

\* the length of the run of empty lines of doc that starts at line n (1-based)
RECURSIVE EmptyRun(_, _)
EmptyRun(doc, n) == IF n <= Len(doc) /\ doc[n] = <<>> THEN 1 + EmptyRun(doc, n + 1) ELSE 0

\* every maximal run of three or more empty lines becomes two empty lines;
\* every other line is copied
RECURSIVE CollapseRuns(_, _)
CollapseRuns(doc, n) ==
    IF n > Len(doc) THEN <<>>
    ELSE LET r == EmptyRun(doc, n)
         IN IF r >= 3 THEN <<LnEmpty, LnEmpty>> \o CollapseRuns(doc, n + r)
            ELSE IF r >= 1 THEN SubSeq(doc, n, n + r - 1) \o CollapseRuns(doc, n + r)
            ELSE <<doc[n]>> \o CollapseRuns(doc, n + 1)

\* C3: the lines of clean_empty_lines' result are the lines of its input with
\* every maximal run of three or more empty lines replaced by two empty lines,
\* runs of one or two empty lines and non-empty lines unchanged.
C3_RunsOfThreeBecomeTwo ==
    pc = "returned" => Split(cleaned_content) = CollapseRuns(Split(original_content), 1)

\* C4: a run that follows a completed run finds zero blocks, writes nothing
\* and leaves the file as the previous run left it.
C4_Idempotence ==
    /\ \A n \in 2..Len(stdout) : stdout[n] = 0
    /\ (run >= 2 /\ pc = "done") => (writes = 0 /\ file = original_content)

C4_Witness == run = 2 /\ pc = "done" /\ stdout[1] > 0 /\ Len(stdout) = 2

\* C5: lines before removal minus the total remove_deprecated_blocks
\* accumulates is the number of lines left after removal, before
\* normalization.
C5_Conservation ==
    pc = "clean" => original_lines - total_lines_removed = Len(lines)

C5_Witness == pc = "clean" /\ Len(deprecated_blocks) >= 1 /\ Len(lines) > 0 /\ total_lines_removed > 0

PairwiseDisjoint(blocks) == ~HasOverlap(blocks)

\* one forward pass that copies the lines no block covers
RECURSIVE ForwardCopy(_, _, _)
ForwardCopy(doc, blocks, i) ==
    IF i >= Len(doc) THEN <<>>
    ELSE IF \E n \in DOMAIN blocks : blocks[n].start <= i /\ i <= blocks[n].end
         THEN ForwardCopy(doc, blocks, i + 1)
         ELSE <<Line(doc, i)>> \o ForwardCopy(doc, blocks, i + 1)

\* C7: for pairwise disjoint in-range blocks, deleting the ranges in
\* descending start order leaves exactly the lines a forward pass copies.
C7_OrderIndependence ==
    (pc = "returned" /\ PairwiseDisjoint(deprecated_blocks)) =>
        /\ lines = ForwardCopy(Split(original_content), deprecated_blocks, 0)
        /\ cleaned_content = Join(lines)

C7_Witness ==
    /\ pc = "returned"
    /\ Len(deprecated_blocks) = 2
    /\ PairwiseDisjoint(deprecated_blocks)
    /\ deprecated_blocks[1].end < deprecated_blocks[2].start
    /\ Len(lines) >= 2
    /\ lines[1] # lines[2]

\* occurrences of ch among the first upto characters of line
Count(line, ch, upto) == Cardinality({p \in 1..upto : line[p] = ch})

\* '{' minus '}' over the lines j..k-1 of doc
RECURSIVE NetBefore(_, _, _)
NetBefore(doc, j, k) ==
    IF k <= j THEN 0
    ELSE NetBefore(doc, j, k - 1)
         + Count(Line(doc, k - 1), "{", Len(Line(doc, k - 1)))
         - Count(Line(doc, k - 1), "}", Len(Line(doc, k - 1)))

\* the depth after character c of line k, counting from the start of line j
DepthAt(doc, j, k, c) ==
    NetBefore(doc, j, k) + Count(Line(doc, k), "{", c) - Count(Line(doc, k), "}", c)

OpenedBy(doc, j, k, c) ==
    \/ \E m \in j..(k - 1) : Contains(Line(doc, m), <<"{">>)
    \/ Count(Line(doc, k), "{", c) > 0

\* on line k the depth is back at zero after an opening delimiter
ClosesOn(doc, j, k) ==
    \E c \in 1..Len(Line(doc, k)) : DepthAt(doc, j, k, c) = 0 /\ OpenedBy(doc, j, k, c)

\* C8: every block starts on its marker's line, ends on the first line from
\* the declaration on where the depth is back at zero after an opening
\* delimiter, and counts end - start + 1 lines.
C8_BlockEndsWhereBodyCloses ==
    FindHasRun =>
        LET doc == Split(original_content)
        IN \A b \in BlockSet :
               LET j == DeclOf(doc, b.start)
               IN /\ IsMarker(Line(doc, b.start))
                  /\ b.lines = b.end - b.start + 1
                  /\ b.end >= j
                  /\ ClosesOn(doc, j, b.end)
                  /\ \A k \in j..(b.end - 1) : ~ClosesOn(doc, j, k)

\* C9: the blocks have end >= start and come in ascending order, each
\* starting after the previous one's end; a marker inside a block's range
\* starts no block.
C9_BlocksAscendingDisjoint ==
    FindHasRun =>
        LET doc == Split(original_content)
        IN /\ \A n \in DOMAIN deprecated_blocks :
                 /\ deprecated_blocks[n].start >= 0
                 /\ deprecated_blocks[n].end >= deprecated_blocks[n].start
                 /\ deprecated_blocks[n].end < Len(doc)
           /\ \A n \in 1..(Len(deprecated_blocks) - 1) :
                 deprecated_blocks[n + 1].start > deprecated_blocks[n].end
           /\ PairwiseDisjoint(deprecated_blocks)
           /\ \A i \in 0..(Len(doc) - 1) :
                 (InsideEarlierBlock(i) /\ IsMarker(Line(doc, i))) =>
                     ~\E b \in BlockSet : b.start = i

\* some marker line lies inside the range of a block that starts before it
MarkerInsideBlock(doc) ==
    \E i \in 0..(Len(doc) - 1) : InsideEarlierBlock(i) /\ IsMarker(Line(doc, i))

C9_Witness ==
    /\ pc = "remove"
    /\ Len(deprecated_blocks) >= 2
    /\ MarkerInsideBlock(Split(original_content))

\* the scan reaches the marker on line i and line i + 1 is a marker too
AdjacentMarkers(doc, i) ==
    /\ i + 1 < Len(doc)
    /\ ~InsideEarlierBlock(i)
    /\ IsMarker(Line(doc, i))
    /\ IsMarker(Line(doc, i + 1))

\* C10 as stated: of two adjacent marker lines the first gets no block and
\* is covered by none.
C10_FirstMarkerSkipped ==
    FindHasRun =>
        LET doc == Split(original_content)
        IN \A i \in 0..(Len(doc) - 1) :
               AdjacentMarkers(doc, i) =>
                   /\ ~\E b \in BlockSet : b.start = i
                   /\ ~Covered(i)

\* C10 as amended: when the scan reaches a marker line followed by a marker
\* line that is not a comment, the second marker line is taken as the first
\* one's declaration: a block starts at the first marker's line and covers
\* the second, and no block starts at the second marker's line.
C10_SecondMarkerIsDeclaration ==
    FindHasRun =>
        LET doc == Split(original_content)
        IN \A i \in 0..(Len(doc) - 1) :
               (AdjacentMarkers(doc, i) /\ ~IsSkippable(Line(doc, i + 1))) =>
                   /\ \E b \in BlockSet : b.start = i /\ b.end >= i + 1
                   /\ ~\E b \in BlockSet : b.start = i + 1

\* a reached marker is followed by a marker line and then by a body
AdjacencyWithBody(doc) ==
    \E i \in 0..(Len(doc) - 1) :
        /\ AdjacentMarkers(doc, i)
        /\ ~IsSkippable(Line(doc, i + 1))
        /\ \E b \in BlockSet : b.start = i /\ b.end > i + 1

C10_Witness == pc = "remove" /\ AdjacencyWithBody(Split(original_content))

====
